---- MODULE Spec2Model ----
(***************************************************************************)
(* Model of the report generation service in python-report-service/app.py: *)
(* the /process-job, /job/{id}/status and /metrics handlers, the           *)
(* background task process_job_async, the report generators, the upload to *)
(* S3 and the status recorder; and of the chat front end in                *)
(* streamlit-app/app.py: the translation of a question to a statement and  *)
(* the chat history.                                                       *)
(*                                                                         *)
(* Conventions.  A Python str that the code inspects (a report-type tag)   *)
(* is a sequence of one-character strings; text that is only assembled is  *)
(* a sequence of segments.  None is the model value None.  An exception    *)
(* is a record [type, text].  The service runs on one event loop and       *)
(* process_job_async never suspends (every call it awaits is blocking), so *)
(* one background task occupies the loop from start to end.  The wall      *)
(* clock is read by the steps that call datetime.now(); a reading is never *)
(* earlier than the one before.                                            *)
(***************************************************************************)
EXTENDS Integers, Sequences, FiniteSets, TLC

\* ------------------------------------------------------------------ bounds
\* the jobs accepted in a run of Spec and of SpecStatus
MaxTasks == 1
\* the jobs accepted in a run of SpecJobs
MaxJobs == 2
\* the last reading of the clock
MaxClock == 1
\* the largest number of jobs the metrics query counts
MaxCount == 4
\* the words of a question typed in SpecSelect
MaxWords == 3
\* the user messages of a chat session in SpecChat
MaxTurns == 2

\* --------------------------------------------------------------- constants
PriorityMin == 1
PriorityMax == 5
PriorityDefault == 3

\* None where the value is a name; an optional text, number or document is
\* a sequence and None is the empty one (NULL, NoText below)
None == "None"

S3_BUCKET == "snowflake-reports-bucket"

\* ------------------------------------------------------------ report tags
SALES_REPORT == <<"S","A","L","E","S","_","R","E","P","O","R","T">>
CUSTOMER_ANALYSIS == <<"C","U","S","T","O","M","E","R","_","A","N","A","L","Y","S","I","S">>
PRODUCT_PERFORMANCE == <<"P","R","O","D","U","C","T","_","P","E","R","F","O","R","M","A","N","C","E">>
EXECUTIVE_DASHBOARD == <<"E","X","E","C","U","T","I","V","E","_","D","A","S","H","B","O","A","R","D">>
DATA_QUALITY == <<"D","A","T","A","_","Q","U","A","L","I","T","Y">>

\* tags a caller may send that are not spelled like the keys above
sales_report_lower == <<"s","a","l","e","s","_","r","e","p","o","r","t">>
REPORT == <<"R","E","P","O","R","T">>
sales_lower == <<"s","a","l","e","s">>

LowerLetters == <<"a","b","c","d","e","f","g","h","i","j","k","l","m",
                  "n","o","p","q","r","s","t","u","v","w","x","y","z">>
UpperLetters == <<"A","B","C","D","E","F","G","H","I","J","K","L","M",
                  "N","O","P","Q","R","S","T","U","V","W","X","Y","Z">>

\* str.upper() on one character
UpperChar(c) ==
    IF \E i \in DOMAIN LowerLetters : LowerLetters[i] = c
    THEN UpperLetters[CHOOSE i \in DOMAIN LowerLetters : LowerLetters[i] = c]
    ELSE c

\* the tag used as it was sent, without str.upper()
Upper_asis(s) == s

\* str.upper()
Upper(s) == [i \in DOMAIN s |-> UpperChar(s[i])]

\* ReportGenerator.__init__: self.generators, tag -> generator method
GeneratorKeys ==
    {SALES_REPORT, CUSTOMER_ANALYSIS, PRODUCT_PERFORMANCE,
     EXECUTIVE_DASHBOARD, DATA_QUALITY}

\* generators with a fallback: an unknown tag selects the sales generator
generators_default(tag) ==
    CASE tag = SALES_REPORT -> "generate_sales_report"
      [] tag = CUSTOMER_ANALYSIS -> "generate_customer_analysis"
      [] tag = PRODUCT_PERFORMANCE -> "generate_product_performance"
      [] tag = EXECUTIVE_DASHBOARD -> "generate_executive_dashboard"
      [] tag = DATA_QUALITY -> "generate_data_quality_report"
      [] OTHER -> "generate_sales_report"

generators(tag) ==
    CASE tag = SALES_REPORT -> "generate_sales_report"
      [] tag = CUSTOMER_ANALYSIS -> "generate_customer_analysis"
      [] tag = PRODUCT_PERFORMANCE -> "generate_product_performance"
      [] tag = EXECUTIVE_DASHBOARD -> "generate_executive_dashboard"
      [] tag = DATA_QUALITY -> "generate_data_quality_report"
      [] OTHER -> None

\* dict.get(report_type.upper()) in generate_report
Dispatch(report_type) == generators(Upper(report_type))

\* ------------------------------------------------------------ input sets
JobIds == {"j1", "j2"}
UnknownJobId == "j0"

EmptyDict == [k \in {} |-> None]

\* job_type and input_data of the jobs a caller submits: input_data names
\* a report_type or leaves it to job_type
SampleJobs ==
    {[job_type |-> REPORT, input_data |-> EmptyDict],
     [job_type |-> DATA_QUALITY, input_data |-> EmptyDict],
     [job_type |-> REPORT, input_data |-> [report_type |-> sales_report_lower]],
     [job_type |-> REPORT, input_data |-> [report_type |-> CUSTOMER_ANALYSIS]],
     [job_type |-> REPORT, input_data |-> [report_type |-> PRODUCT_PERFORMANCE]],
     [job_type |-> DATA_QUALITY, input_data |-> [report_type |-> EXECUTIVE_DASHBOARD]],
     [job_type |-> DATA_QUALITY, input_data |-> [report_type |-> sales_lower]]}

\* ------------------------------------------------- query results (DataFrame)
\* A DataFrame is the sequence of its rows; a row maps the columns the
\* formatter reads to a cell: <<n>> for the number n, NULL for SQL NULL
\* (Python None).
NULL == <<>>
SalesRows ==
    {[TOTAL_REVENUE |-> <<2>>, TOTAL_ORDERS |-> <<1>>],
     [TOTAL_REVENUE |-> NULL, TOTAL_ORDERS |-> <<1>>]}
CustomerRows ==
    {[CUSTOMER_COUNT |-> <<2>>, AVG_LTV |-> <<1>>, TOTAL_REVENUE |-> <<2>>]}
ProductRows ==
    {[PRODUCT_NAME |-> "widget", TOTAL_REVENUE |-> <<2>>, MARGIN_PERCENTAGE |-> <<1>>]}
ExecutiveRows ==
    {[YTD_REVENUE |-> <<2>>, LAST_YEAR_REVENUE |-> <<1>>, TOTAL_ACTIVE_CUSTOMERS |-> <<2>>,
      ORDERS_YTD |-> <<2>>, AVG_ORDER_VALUE_YTD |-> <<1>>, JOBS_TODAY |-> <<2>>,
      JOBS_COMPLETED_TODAY |-> <<1>>],
     [YTD_REVENUE |-> NULL, LAST_YEAR_REVENUE |-> <<1>>, TOTAL_ACTIVE_CUSTOMERS |-> <<2>>,
      ORDERS_YTD |-> <<2>>, AVG_ORDER_VALUE_YTD |-> <<1>>, JOBS_TODAY |-> <<2>>,
      JOBS_COMPLETED_TODAY |-> <<1>>]}
QualityRows == {[STATUS |-> "PASS"]}

RowsOf(gen) ==
    CASE gen = "generate_sales_report" -> SalesRows
      [] gen = "generate_customer_analysis" -> CustomerRows
      [] gen = "generate_product_performance" -> ProductRows
      [] gen = "generate_executive_dashboard" -> ExecutiveRows
      [] gen = "generate_data_quality_report" -> QualityRows

\* the result sets the report query of a generator may return: no row, or
\* one of the rows above
Frames(gen) == {<<>>} \cup {<<row>> : row \in RowsOf(gen)}

\* ----------------------------------------------------- pandas / builtins
RECURSIVE SumCol(_, _)
\* Series.sum(): NULLs are skipped, the empty sum is 0
SumCol(df, col) ==
    IF df = <<>> THEN 0
    ELSE (IF Head(df)[col] = NULL THEN 0 ELSE Head(df)[col][1]) + SumCol(Tail(df), col)

RECURSIVE CountCol(_, _)
\* Series.count(): the number of non-NULL cells
CountCol(df, col) ==
    IF df = <<>> THEN 0
    ELSE (IF Head(df)[col] = NULL THEN 0 ELSE 1) + CountCol(Tail(df), col)

\* Series.mean(): NaN (written NULL) when no value is present; the quotient
\* is truncated to an integer
MeanCol(df, col) ==
    IF CountCol(df, col) = 0 THEN NULL ELSE <<SumCol(df, col) \div CountCol(df, col)>>

\* float(x) and int(x) raise TypeError on None
ConversionRaises(cell) == cell = NULL

Max(a, b) == IF a >= b THEN a ELSE b

\* len(df[df['STATUS'] == value])
CountStatus(df, value) == Cardinality({i \in DOMAIN df : df[i].STATUS = value})

\* data.get(col, default) on df.iloc[0], or on {} when the frame is empty
RowGet(df, col, default) == IF df = <<>> THEN <<default>> ELSE df[1][col]

\* ------------------------------------------------------ report documents
\* Each formatter yields [raises |-> FALSE, content |-> document] or
\* [raises |-> TRUE, exc |-> exception].
Raised(type, text) == [raises |-> TRUE, exc |-> [type |-> type, text |-> text]]
Returned(content) == [raises |-> FALSE, content |-> content]

\* the sales formatter without the guard on the empty frame: df.iloc[0]
\* raises IndexError when there is no row
_create_sales_report_content_unguarded(df, params, at) ==
    IF df = <<>>
    THEN Raised("IndexError", "single positional indexer is out-of-bounds")
    ELSE IF ConversionRaises(df[1].TOTAL_REVENUE)
    THEN Raised("TypeError", "float() argument must be a string or a number")
    ELSE Returned(
        [report_type |-> "Sales Performance Report",
         generated_at |-> at,
         parameters |-> params,
         summary |->
            [total_months |-> Len(df),
             latest_revenue |-> df[1].TOTAL_REVENUE[1],
             total_orders_ytd |-> SumCol(df, "TOTAL_ORDERS"),
             avg_monthly_revenue |-> MeanCol(df, "TOTAL_REVENUE")],
         data |-> df])

_create_sales_report_content(df, params, at) ==
    IF df # <<>> /\ ConversionRaises(df[1].TOTAL_REVENUE)
    THEN Raised("TypeError", "float() argument must be a string or a number")
    ELSE Returned(
        [report_type |-> "Sales Performance Report",
         generated_at |-> at,
         parameters |-> params,
         summary |->
            [total_months |-> Len(df),
             latest_revenue |-> IF df # <<>> THEN df[1].TOTAL_REVENUE[1] ELSE 0,
             total_orders_ytd |-> SumCol(df, "TOTAL_ORDERS"),
             avg_monthly_revenue |-> MeanCol(df, "TOTAL_REVENUE")],
         data |-> df])

_create_customer_analysis_content(df, params, at) ==
    Returned(
        [report_type |-> "Customer Analysis Report",
         generated_at |-> at,
         parameters |-> params,
         summary |->
            [total_customers |-> SumCol(df, "CUSTOMER_COUNT"),
             avg_lifetime_value |-> MeanCol(df, "AVG_LTV"),
             total_revenue |-> SumCol(df, "TOTAL_REVENUE")],
         data |-> df])

_create_product_performance_content(df, params, at) ==
    Returned(
        [report_type |-> "Product Performance Report",
         generated_at |-> at,
         parameters |-> params,
         summary |->
            [total_products |-> Len(df),
             top_product |-> IF df # <<>> THEN df[1].PRODUCT_NAME ELSE None,
             total_revenue |-> SumCol(df, "TOTAL_REVENUE"),
             avg_margin |-> MeanCol(df, "MARGIN_PERCENTAGE")],
         data |-> df])

\* the columns _create_executive_dashboard_content converts with float/int
ExecutiveColumns ==
    {"YTD_REVENUE", "LAST_YEAR_REVENUE", "TOTAL_ACTIVE_CUSTOMERS", "ORDERS_YTD",
     "AVG_ORDER_VALUE_YTD", "JOBS_TODAY", "JOBS_COMPLETED_TODAY"}

_create_executive_dashboard_content(df, params, at) ==
    IF \E c \in ExecutiveColumns : ConversionRaises(RowGet(df, c, 0))
    THEN Raised("TypeError", "float() argument must be a string or a number")
    ELSE Returned(
        [report_type |-> "Executive Dashboard",
         generated_at |-> at,
         parameters |-> params,
         metrics |->
            [ytd_revenue |-> RowGet(df, "YTD_REVENUE", 0)[1],
             revenue_growth |->
                RowGet(df, "YTD_REVENUE", 0)[1] - RowGet(df, "LAST_YEAR_REVENUE", 0)[1],
             active_customers |-> RowGet(df, "TOTAL_ACTIVE_CUSTOMERS", 0)[1],
             orders_ytd |-> RowGet(df, "ORDERS_YTD", 0)[1],
             avg_order_value |-> RowGet(df, "AVG_ORDER_VALUE_YTD", 0)[1],
             jobs_today |-> RowGet(df, "JOBS_TODAY", 0)[1],
             jobs_success_rate |->
                (RowGet(df, "JOBS_COMPLETED_TODAY", 0)[1] * 100)
                    \div Max(RowGet(df, "JOBS_TODAY", 1)[1], 1)]])

_create_data_quality_content(df, params, at) ==
    Returned(
        [report_type |-> "Data Quality Report",
         generated_at |-> at,
         parameters |-> params,
         summary |->
            [total_checks |-> Len(df),
             passed_checks |-> CountStatus(df, "PASS"),
             failed_checks |-> CountStatus(df, "FAIL"),
             success_rate |-> (CountStatus(df, "PASS") * 100) \div Max(Len(df), 1)],
         data |-> df])

\* the formatter each generator calls on its query result
CreateContent(gen, df, params, at) ==
    CASE gen = "generate_sales_report" -> _create_sales_report_content(df, params, at)
      [] gen = "generate_customer_analysis" -> _create_customer_analysis_content(df, params, at)
      [] gen = "generate_product_performance" -> _create_product_performance_content(df, params, at)
      [] gen = "generate_executive_dashboard" -> _create_executive_dashboard_content(df, params, at)
      [] gen = "generate_data_quality_report" -> _create_data_quality_content(df, params, at)

\* --------------------------------------------------------- storage keys
\* strftime('%Y%m%d_%H%M%S'): date and time of day to the second, as digits
Strftime(t) == <<"20240101_00000", t>>

Category(gen) ==
    CASE gen = "generate_sales_report" -> "sales"
      [] gen = "generate_customer_analysis" -> "customers"
      [] gen = "generate_product_performance" -> "products"
      [] gen = "generate_executive_dashboard" -> "executive"
      [] gen = "generate_data_quality_report" -> "quality"

ReportName(gen) ==
    CASE gen = "generate_sales_report" -> "sales_report"
      [] gen = "generate_customer_analysis" -> "customer_analysis"
      [] gen = "generate_product_performance" -> "product_performance"
      [] gen = "generate_executive_dashboard" -> "executive_dashboard"
      [] gen = "generate_data_quality_report" -> "data_quality"

\* f"reports/<category>/{job_id}_<report_name>_{timestamp}.json"
S3Key(gen, job_id, t) ==
    <<"reports/", Category(gen), "/", job_id, "_", ReportName(gen), "_",
      Strftime(t), ".json">>

\* f"s3://{config.S3_BUCKET}/{s3_key}"
S3Url(s3_key) == <<"s3://", S3_BUCKET, "/">> \o s3_key

\* the error message without its prefix: str(e) alone
ErrorMessage_bare(e) == e.text

\* f"Job processing failed: {str(e)}"
ErrorMessage(e) == <<"Job processing failed: ">> \o e.text

\* None for an optional text (output_location, error_message)
NoText == <<>>

\* a text assembled from segments is empty when every segment is
IsEmptyText(segs) == \A i \in DOMAIN segs : segs[i] = ""

\* ------------------------------------------------------------------ state
VARIABLES
    now,        \* the last value read from datetime.now(), in whole seconds
    tasks,      \* the background tasks added by process_job, in order
    loop,       \* the task that occupies the event loop, 0 when it is free
    jobs,       \* the warehouse's jobs table, by job id
    puts,       \* the put_object calls the bucket has accepted, in order
    lastResp,   \* the HTTP exchange the last step completed, if it was one
    chat        \* the session state of the chat front end

vars == <<now, tasks, loop, jobs, puts, lastResp, chat>>

NoExc == [type |-> "", text |-> <<>>]
Exc(type, text) == [type |-> type, text |-> text]


\* the locals of process_job_async before it has run, and the history of
\* the task: the step of the try block that raised (raised), the
\* update_job_status calls issued (updates), the report queries executed
\* (queries) and the put_object calls attempted (uploads)
NewTask(job_request) ==
    [job_id |-> job_request.job_id,
     job_type |-> job_request.job_type,
     input_data |-> job_request.input_data,
     pc |-> "scheduled",
     start_time |-> 0,
     report_type |-> <<>>,
     generator |-> None,
     conn |-> FALSE,
     df |-> <<>>,
     report_content |-> <<>>,
     s3_url |-> NoText,
     exc |-> NoExc,
     raised |-> "",
     updates |-> <<>>,
     queries |-> 0,
     uploads |-> 0]

\* a job row as the caller created it
NewRow ==
    [status |-> "PENDING", output_location |-> NoText,
     error_message |-> NoText, execution_time_seconds |-> NULL]

\* no exchange; in an exchange, result is what the handler's own calls did:
\* the statement that raised or "ok", and the rows a query returned
NoResp ==
    [endpoint |-> "", request |-> <<>>, result |-> <<>>, code |-> 0, body |-> <<>>]

\* initialize_chat_history
InitialMessage ==
    [role |-> "assistant",
     content |-> <<"Hi! I'm your Snowflake Cortex Analyst assistant. ...">>,
     sql_query |-> NoText, results |-> NULL]

\* the session state: st.session_state.messages; the statements passed to
\* session.sql (log); the user messages appended so far (turns)
InitChat == [messages |-> <<InitialMessage>>, log |-> <<>>, turns |-> 0]

Init ==
    /\ now = 0
    /\ tasks = <<>>
    /\ loop = 0
    /\ jobs = [j \in JobIds |-> NewRow]
    /\ puts = <<>>
    /\ lastResp = NoResp
    /\ chat = InitChat

TaskIds == DOMAIN tasks

\* the locals go out of scope when the coroutine ends; the record keeps the
\* history of the calls the task made and the connection it has open
EndTask(task, pc) ==
    [task EXCEPT !.pc = pc, !.df = <<>>, !.report_content = <<>>,
                 !.exc = NoExc, !.s3_url = NoText,
                 !.start_time = 0]

\* --------------------------------------------- SnowflakeConnection methods
\* the stored procedure update_job_status, applied to the jobs table
update_job_status_proc(table, u) ==
    IF u.job_id \in DOMAIN table
    THEN [table EXCEPT ![u.job_id] =
            [status |-> u.status, output_location |-> u.output_location,
             error_message |-> u.error_message,
             execution_time_seconds |-> u.execution_time]]
    ELSE table

\* the update addressed to the job accepted last, as if the job id were
\* kept in a variable of the module that every request overwrites
StatusUpdate_latest(job_id, status, output_location, error_message, execution_time) ==
    [job_id |-> tasks[Len(tasks)].job_id, status |-> status,
     output_location |-> output_location,
     error_message |-> error_message, execution_time |-> execution_time,
     sent |-> FALSE]

\* the arguments of a call of update_job_status, and whether the CALL has
\* reached the warehouse
StatusUpdate(job_id, status, output_location, error_message, execution_time) ==
    [job_id |-> job_id, status |-> status, output_location |-> output_location,
     error_message |-> error_message, execution_time |-> execution_time,
     sent |-> FALSE]

\* the statement of update_job_status that raises, if any
UpdateOutcomes == {"ok", "execute", "commit", "close"}
\* the statement of execute_query that raises, if any
QueryOutcomes == {"ok", "execute", "close"}

\* the exception get_connection re-raises when connect fails
ConnectError == Exc("DatabaseError", <<"250001: could not connect">>)
\* the exception a statement on an open connection raises; str(e) may be
\* empty
StatementErrors == {Exc("DatabaseError", text) : text \in {<<"">>, <<"statement failed">>}}
StatementError == Exc("DatabaseError", <<"statement failed">>)

\* update_job_status up to get_connection: the call is issued with its
\* arguments; the connection opens (continue at okPc) or get_connection
\* raises (exception handling continues at failPc)
UpdateGetConnection(t, u, okPc, failPc) ==
    \/ /\ tasks' = [tasks EXCEPT ![t].updates = Append(@, u),
                                 ![t].conn = TRUE,
                                 ![t].pc = okPc]
       /\ loop' = loop
    \/ /\ tasks' = [tasks EXCEPT
                ![t] = IF failPc = "crashed"
                       THEN EndTask([@ EXCEPT !.updates = Append(@, u)], failPc)
                       ELSE [@ EXCEPT !.updates = Append(@, u),
                                      !.exc = ConnectError,
                                      !.raised = tasks[t].pc,
                                      !.pc = failPc]]
       /\ loop' = IF failPc = "crashed" THEN 0 ELSE loop

\* update_job_status with conn.close() after conn.commit() instead of in a
\* finally clause: the connection stays open when a statement raises
UpdateExecute_leak(t, okPc, failPc) ==
    \E outcome \in UpdateOutcomes :
        LET n == Len(tasks[t].updates)
            u == tasks[t].updates[n]
            isSent == outcome # "execute"
            raised == outcome # "ok"
            pc == IF raised THEN failPc ELSE okPc
            ends == pc \in {"done", "crashed"}
            after == [tasks[t] EXCEPT
                        !.updates[n].sent = isSent,
                        !.conn = outcome \in {"execute", "commit"},
                        !.exc = IF raised THEN StatementError ELSE @,
                        !.raised = IF raised /\ failPc = "except"
                                   THEN tasks[t].pc ELSE @,
                        !.pc = pc]
        IN  /\ tasks' = [tasks EXCEPT ![t] = IF ends THEN EndTask(after, pc) ELSE after]
            /\ jobs' = IF isSent THEN update_job_status_proc(jobs, u) ELSE jobs
            /\ loop' = IF ends THEN 0 ELSE loop

\* update_job_status from cursor.execute to the finally clause: the CALL
\* reaches the warehouse unless cursor.execute raises; the connection is
\* closed on every path
UpdateExecute(t, okPc, failPc) ==
    \E outcome \in UpdateOutcomes :
        LET n == Len(tasks[t].updates)
            u == tasks[t].updates[n]
            isSent == outcome # "execute"
            raised == outcome # "ok"
            pc == IF raised THEN failPc ELSE okPc
            ends == pc \in {"done", "crashed"}
            after == [tasks[t] EXCEPT
                        !.updates[n].sent = isSent,
                        !.conn = FALSE,
                        !.exc = IF raised THEN StatementError ELSE @,
                        !.raised = IF raised /\ failPc = "except"
                                   THEN tasks[t].pc ELSE @,
                        !.pc = pc]
        IN  /\ tasks' = [tasks EXCEPT ![t] = IF ends THEN EndTask(after, pc) ELSE after]
            /\ jobs' = IF isSent THEN update_job_status_proc(jobs, u) ELSE jobs
            /\ loop' = IF ends THEN 0 ELSE loop

\* datetime.now(): a reading no earlier than the last one
ReadClock == now' \in now..MaxClock

\* ------------------------------------------------------ process_job_async
\* the coroutine starts: start_time = datetime.now().  The background task
\* of a response is awaited right after the response is sent, so the tasks
\* start in the order in which they were added.
StartTask(t) ==
    /\ loop = 0
    /\ tasks[t].pc = "scheduled"
    /\ \A u \in 1..(t - 1) : tasks[u].pc # "scheduled"
    /\ ReadClock
    /\ tasks' = [tasks EXCEPT ![t].pc = "update_running", ![t].start_time = now']
    /\ loop' = t
    /\ UNCHANGED <<jobs, puts, chat>>
    /\ lastResp' = NoResp

\* sf_conn.update_job_status(job_id, 'RUNNING'): get_connection
RunningGetConnection(t) ==
    /\ tasks[t].pc = "update_running"
    /\ UpdateGetConnection(t,
            StatusUpdate(tasks[t].job_id, "RUNNING", NoText, NoText, NULL),
            "update_running_execute", "except")
    /\ UNCHANGED <<now, jobs, puts, chat>>
    /\ lastResp' = NoResp

\* the RUNNING update with its exceptions swallowed: the task goes on to
\* the report whether or not the update reached the warehouse
RunningExecute_swallow(t) ==
    /\ tasks[t].pc = "update_running_execute"
    /\ UpdateExecute(t, "generate", "generate")
    /\ UNCHANGED <<now, puts, chat>>
    /\ lastResp' = NoResp

\* sf_conn.update_job_status(job_id, 'RUNNING'): execute, commit, close
RunningExecute(t) ==
    /\ tasks[t].pc = "update_running_execute"
    /\ UpdateExecute(t, "generate", "except")
    /\ UNCHANGED <<now, puts, chat>>
    /\ lastResp' = NoResp

\* the report type taken from job_type whatever input_data holds
ReportTypeOf_jobtype(task) == task.job_type

\* input_data.get('report_type', job_type)
ReportTypeOf(task) ==
    IF "report_type" \in DOMAIN task.input_data
    THEN task.input_data["report_type"]
    ELSE task.job_type

\* the report type is determined and generate_report dispatches on it
GenerateReport(t) ==
    /\ tasks[t].pc = "generate"
    /\ LET report_type == ReportTypeOf(tasks[t])
           generator == Dispatch(report_type)
       IN tasks' = [tasks EXCEPT
            ![t].report_type = report_type,
            ![t].generator = generator,
            ![t].exc = IF generator = None
                       THEN Exc("ValueError",
                                <<"Unsupported report type: ">> \o report_type)
                       ELSE @,
            ![t].raised = IF generator = None THEN "generate" ELSE @,
            ![t].pc = IF generator = None THEN "except" ELSE "query"]
    /\ UNCHANGED <<now, loop, jobs, puts, chat>>
    /\ lastResp' = NoResp

\* generate_*: sf_conn.execute_query(query), get_connection
QueryGetConnection(t) ==
    /\ tasks[t].pc = "query"
    /\ \/ tasks' = [tasks EXCEPT ![t].conn = TRUE, ![t].pc = "query_execute"]
       \/ tasks' = [tasks EXCEPT ![t].exc = ConnectError,
                                 ![t].raised = "query",
                                 ![t].pc = "except"]
    /\ UNCHANGED <<now, loop, jobs, puts, chat>>
    /\ lastResp' = NoResp

\* generate_*: sf_conn.execute_query(query), execute, fetch, close
QueryExecute(t) ==
    /\ tasks[t].pc = "query_execute"
    /\ \E outcome \in QueryOutcomes :
        IF outcome = "ok"
        THEN \E df \in Frames(tasks[t].generator) :
                tasks' = [tasks EXCEPT ![t].df = df,
                                       ![t].conn = FALSE,
                                       ![t].queries = @ + 1,
                                       ![t].pc = "create_content"]
        ELSE \E e \in StatementErrors :
                tasks' = [tasks EXCEPT ![t].conn = FALSE,
                                       ![t].queries = @ + 1,
                                       ![t].exc = e,
                                       ![t].raised = "query_execute",
                                       ![t].pc = "except"]
    /\ UNCHANGED <<now, loop, jobs, puts, chat>>
    /\ lastResp' = NoResp

\* shaping that writes the raw rows to storage before it summarises them
CreateReportContent_partial(t) ==
    /\ tasks[t].pc = "create_content"
    /\ ReadClock
    /\ LET r == CreateContent(tasks[t].generator, tasks[t].df,
                              tasks[t].input_data, now')
       IN /\ tasks' = [tasks EXCEPT
                ![t].report_content = IF r.raises THEN @ ELSE <<r.content>>,
                ![t].exc = IF r.raises THEN r.exc ELSE @,
                ![t].raised = IF r.raises THEN "create_content" ELSE @,
                ![t].pc = IF r.raises THEN "except" ELSE "upload"]
          /\ puts' = IF r.raises
                     THEN Append(puts,
                            [task |-> t,
                             Key |-> S3Key(tasks[t].generator, tasks[t].job_id, now'),
                             Body |-> [data |-> tasks[t].df]])
                     ELSE puts
    /\ UNCHANGED <<loop, jobs, chat>>
    /\ lastResp' = NoResp

\* generate_*: report_content = self._create_*_content(df, params)
CreateReportContent(t) ==
    /\ tasks[t].pc = "create_content"
    /\ ReadClock
    /\ LET r == CreateContent(tasks[t].generator, tasks[t].df,
                              tasks[t].input_data, now')
       IN tasks' = [tasks EXCEPT
            ![t].report_content = IF r.raises THEN @ ELSE <<r.content>>,
            ![t].exc = IF r.raises THEN r.exc ELSE @,
            ![t].raised = IF r.raises THEN "create_content" ELSE @,
            ![t].pc = IF r.raises THEN "except" ELSE "upload"]
    /\ UNCHANGED <<loop, jobs, puts, chat>>
    /\ lastResp' = NoResp

\* the upload in a loop that repeats put_object until it succeeds
UploadToS3_retry(t) ==
    /\ tasks[t].pc = "upload"
    /\ ReadClock
    /\ LET s3_key == S3Key(tasks[t].generator, tasks[t].job_id, now')
       IN \/ /\ puts' = Append(puts, [task |-> t, Key |-> s3_key,
                                      Body |-> tasks[t].report_content[1]])
             /\ tasks' = [tasks EXCEPT ![t].s3_url = S3Url(s3_key),
                                       ![t].uploads = @ + 1,
                                       ![t].pc = "update_completed"]
          \/ /\ puts' = puts
             /\ tasks' = [tasks EXCEPT ![t].uploads = @ + 1]
    /\ UNCHANGED <<loop, jobs, chat>>
    /\ lastResp' = NoResp

\* generate_*: the key is formatted and _upload_to_s3 puts the object, or
\* put_object raises ClientError
UploadToS3(t) ==
    /\ tasks[t].pc = "upload"
    /\ ReadClock
    /\ LET s3_key == S3Key(tasks[t].generator, tasks[t].job_id, now')
       IN \/ /\ puts' = Append(puts, [task |-> t, Key |-> s3_key,
                                      Body |-> tasks[t].report_content[1]])
             /\ tasks' = [tasks EXCEPT ![t].s3_url = S3Url(s3_key),
                                       ![t].uploads = @ + 1,
                                       ![t].pc = "update_completed"]
          \/ /\ puts' = puts
             /\ tasks' = [tasks EXCEPT ![t].uploads = @ + 1,
                                       ![t].exc = Exc("ClientError", <<"AccessDenied">>),
                                       ![t].raised = "upload",
                                       ![t].pc = "except"]
    /\ UNCHANGED <<loop, jobs, chat>>
    /\ lastResp' = NoResp

\* (datetime.now() - start_time).total_seconds()
ExecutionTime(task) == <<now' - task.start_time>>

\* sf_conn.update_job_status(job_id, 'COMPLETED', ...): get_connection
CompletedGetConnection(t) ==
    /\ tasks[t].pc = "update_completed"
    /\ ReadClock
    /\ UpdateGetConnection(t,
            StatusUpdate(tasks[t].job_id, "COMPLETED", tasks[t].s3_url, NoText,
                         ExecutionTime(tasks[t])),
            "update_completed_execute", "except")
    /\ UNCHANGED <<jobs, puts, chat>>
    /\ lastResp' = NoResp

\* the COMPLETED update with its exceptions swallowed: the task ends
\* normally whether or not the update reached the warehouse
CompletedExecute_swallow(t) ==
    /\ tasks[t].pc = "update_completed_execute"
    /\ UpdateExecute(t, "done", "done")
    /\ UNCHANGED <<now, puts, chat>>
    /\ lastResp' = NoResp

\* sf_conn.update_job_status(job_id, 'COMPLETED', ...): execute, commit, close
CompletedExecute(t) ==
    /\ tasks[t].pc = "update_completed_execute"
    /\ UpdateExecute(t, "done", "except")
    /\ UNCHANGED <<now, puts, chat>>
    /\ lastResp' = NoResp

\* except Exception as e: sf_conn.update_job_status(job_id, 'FAILED', ...),
\* get_connection; an exception here leaves the coroutine
FailedGetConnection(t) ==
    /\ tasks[t].pc = "except"
    /\ ReadClock
    /\ UpdateGetConnection(t,
            StatusUpdate(tasks[t].job_id, "FAILED", NoText,
                         ErrorMessage(tasks[t].exc), ExecutionTime(tasks[t])),
            "update_failed_execute", "crashed")
    /\ UNCHANGED <<jobs, puts, chat>>
    /\ lastResp' = NoResp

\* sf_conn.update_job_status(job_id, 'FAILED', ...): execute, commit, close
FailedExecute(t) ==
    /\ tasks[t].pc = "update_failed_execute"
    /\ UpdateExecute(t, "done", "crashed")
    /\ UNCHANGED <<now, puts, chat>>
    /\ lastResp' = NoResp

\* ------------------------------------------------------------ HTTP handlers
\* validation with the upper end of the range off by one
JobRequestValid_loose(request) ==
    /\ request.wellformed
    /\ request.priority >= PriorityMin
    /\ request.priority <= PriorityMax + 1

\* JobRequest: pydantic accepts the body when every required field is
\* present and priority is within ge=1, le=5
JobRequestValid(request) ==
    /\ request.wellformed
    /\ request.priority >= PriorityMin
    /\ request.priority <= PriorityMax

JobRequest(job_id, job, priority, wellformed) ==
    [job_id |-> job_id, job_type |-> job.job_type, input_data |-> job.input_data,
     priority |-> priority, wellformed |-> wellformed]

RepeatedJob == [job_type |-> DATA_QUALITY, input_data |-> EmptyDict]

\* the bodies posted in Spec: every sample job with a priority at either end
\* of the range; bodies with a priority next to the range; a body that
\* lacks a required field
JobRequests ==
    {JobRequest("j1", job, p, TRUE) :
        job \in SampleJobs, p \in {PriorityMin, PriorityMax}}
    \cup {JobRequest("j1", RepeatedJob, p, TRUE) :
        p \in {PriorityMin - 1, PriorityMax + 1}}
    \cup {JobRequest("j1", RepeatedJob, PriorityDefault, FALSE)}

\* the bodies posted in Spec once a job has been accepted: the repeated job
\* with a priority inside and next to the range, and the body that lacks a
\* required field
LaterRequests ==
    {r \in JobRequests : r.job_type = RepeatedJob.job_type
                            /\ r.input_data = RepeatedJob.input_data}

\* the bodies posted in Spec after n jobs have been accepted
RequestsAfter(n) == IF n = 0 THEN JobRequests ELSE LaterRequests

\* the bodies posted in SpecJobs and SpecStatus: one kind of job, for any
\* job id, any number of times
RepeatedRequests ==
    {JobRequest(j, RepeatedJob, PriorityDefault, TRUE) : j \in JobIds}

ANALYSIS == <<"A","N","A","L","Y","S","I","S">>
DATA_SYNC == <<"D","A","T","A","_","S","Y","N","C">>

\* completion_estimates.get(job_type, '5-10 minutes')
EstimatedCompletion(job_type) ==
    CASE job_type = REPORT -> "5-10 minutes"
      [] job_type = ANALYSIS -> "10-15 minutes"
      [] job_type = DATA_SYNC -> "2-5 minutes"
      [] OTHER -> "5-10 minutes"

\* f"ECS_TRACK_{job_id}_{int(datetime.now().timestamp())}"
TrackingId(job_id) == <<"ECS_TRACK_", job_id, "_", now'>>

\* the statement of process_job that raises, if any
HandlerOutcomes == {"ok", "add_task", "JobResponse"}

\* the handler that marks the job RUNNING itself before it answers,
\* instead of leaving every warehouse call to the background task
ProcessJob_waits(request, outcome, limit) ==
    /\ loop = 0
    /\ Len(tasks) < limit
    /\ IF JobRequestValid(request) THEN ReadClock ELSE now' = now
    /\ IF ~JobRequestValid(request)
       THEN /\ lastResp' = [endpoint |-> "process-job", request |-> <<request>>,
                            result |-> <<"rejected">>,
                            code |-> 422, body |-> <<>>]
            /\ UNCHANGED <<tasks, jobs>>
       ELSE IF outcome # "ok"
       THEN /\ lastResp' = [endpoint |-> "process-job", request |-> <<request>>,
                            result |-> <<outcome>>,
                            code |-> 500, body |-> <<[detail |-> <<outcome>>]>>]
            /\ UNCHANGED <<tasks, jobs>>
       ELSE LET u == [StatusUpdate(request.job_id, "RUNNING", NoText, NoText, NULL)
                        EXCEPT !.sent = TRUE]
            IN  /\ tasks' = Append(tasks,
                        [NewTask(request) EXCEPT !.updates = <<u>>])
                /\ jobs' = update_job_status_proc(jobs, u)
                /\ lastResp' =
                    [endpoint |-> "process-job", request |-> <<request>>,
                     result |-> <<"ok">>,
                     code |-> 200,
                     body |-> <<[status |-> "accepted",
                                 job_id |-> request.job_id,
                                 tracking_id |-> TrackingId(request.job_id),
                                 estimated_completion |->
                                    EstimatedCompletion(request.job_type),
                                 s3_output_location |-> NoText]>>]
    /\ UNCHANGED <<loop, puts, chat>>

\* POST /process-job: validation of the body, then the handler.  A handler
\* that raises answers 500 and its BackgroundTasks are dropped with it.
ProcessJob(request, outcome, limit) ==
    /\ loop = 0
    /\ Len(tasks) < limit
    /\ IF JobRequestValid(request) THEN ReadClock ELSE now' = now
    /\ IF ~JobRequestValid(request)
       THEN /\ lastResp' = [endpoint |-> "process-job", request |-> <<request>>,
                            result |-> <<"rejected">>,
                            code |-> 422, body |-> <<>>]
            /\ tasks' = tasks
       ELSE IF outcome # "ok"
       THEN /\ lastResp' = [endpoint |-> "process-job", request |-> <<request>>,
                            result |-> <<outcome>>,
                            code |-> 500, body |-> <<[detail |-> <<outcome>>]>>]
            /\ tasks' = tasks
       ELSE /\ tasks' = Append(tasks, NewTask(request))
            /\ lastResp' =
                [endpoint |-> "process-job", request |-> <<request>>,
                 result |-> <<"ok">>,
                 code |-> 200,
                 body |-> <<[status |-> "accepted",
                             job_id |-> request.job_id,
                             tracking_id |-> TrackingId(request.job_id),
                             estimated_completion |->
                                EstimatedCompletion(request.job_type),
                             s3_output_location |-> NoText]>>]
    /\ UNCHANGED <<loop, jobs, puts, chat>>

\* the rows SELECT ... FROM jobs WHERE job_id = %s returns
SelectJob(job_id) == IF job_id \in DOMAIN jobs THEN <<jobs[job_id]>> ELSE <<>>

\* GET /job/{job_id}/status: HTTPException is an Exception, so the 404
\* raised inside the try block is caught by the handler's own except clause
GetJobStatus(job_id, outcome) ==
    /\ loop = 0
    /\ LET df == SelectJob(job_id)
           request == <<[job_id |-> job_id]>>
       IN lastResp' =
            IF outcome # "ok"
            THEN [endpoint |-> "job-status", request |-> request,
                  result |-> <<outcome>>, code |-> 500,
                  body |-> <<[detail |-> IF outcome = "connect"
                                         THEN ConnectError.text
                                         ELSE StatementError.text]>>]
            ELSE IF df = <<>>
            THEN [endpoint |-> "job-status", request |-> request,
                  result |-> <<"ok", df>>, code |-> 500,
                  body |-> <<[detail |-> <<"404: Job not found">>]>>]
            ELSE [endpoint |-> "job-status", request |-> request,
                  result |-> <<"ok", df>>, code |-> 200,
                  body |-> <<[job_id |-> job_id,
                              status |-> df[1].status,
                              output_location |-> df[1].output_location,
                              error_message |-> df[1].error_message,
                              execution_time_seconds |->
                                 df[1].execution_time_seconds]>>]
    /\ UNCHANGED <<now, tasks, loop, jobs, puts, chat>>

\* a float that is the quotient of two integers, kept exact
TrueDiv(a, b) == [num |-> a, den |-> b]
FloatMul(q, k) == [num |-> q.num * k, den |-> q.den]

\* the row the metrics query returns: counts over the jobs of the last 24
\* hours, and the average of their execution times, NULL when none has one
AvgCells == {NULL, <<0>>, <<2>>}
MetricsRows ==
    {[TOTAL_JOBS |-> <<x[1]>>, COMPLETED_JOBS |-> <<x[2]>>,
      FAILED_JOBS |-> <<x[3]>>, RUNNING_JOBS |-> <<x[1] - x[2] - x[3]>>,
      AVG_EXECUTION_TIME |-> x[4]] :
        x \in {y \in (0..MaxCount) \X (0..MaxCount) \X (0..MaxCount) \X AvgCells :
                /\ y[2] + y[3] <= y[1]
                /\ y[2] + y[3] = 0 => y[4] = NULL}}

\* the results of the metrics query: its one row, or no row
MetricsFrames == {<<>>} \cup {<<row>> : row \in MetricsRows}

\* the success rate with the divisor not floored at 1
SuccessRate_unfloored(df) ==
    LET completed == RowGet(df, "COMPLETED_JOBS", 0)[1]
        total == RowGet(df, "TOTAL_JOBS", 1)[1]
    IN  IF total = 0
        THEN Raised("ZeroDivisionError", "division by zero")
        ELSE Returned(FloatMul(TrueDiv(completed, total), 100))

\* (int(metrics.get('COMPLETED_JOBS', 0))
\*      / max(int(metrics.get('TOTAL_JOBS', 1)), 1)) * 100
SuccessRate(df) ==
    LET completed == RowGet(df, "COMPLETED_JOBS", 0)[1]
        total == RowGet(df, "TOTAL_JOBS", 1)[1]
    IN  IF Max(total, 1) = 0
        THEN Raised("ZeroDivisionError", "division by zero")
        ELSE Returned(FloatMul(TrueDiv(completed, Max(total, 1)), 100))

\* float(x) if x else 0, on metrics.get('AVG_EXECUTION_TIME')
AvgExecutionTime(df) ==
    LET cell == IF df = <<>> THEN NULL ELSE df[1].AVG_EXECUTION_TIME
    IN  IF cell = NULL \/ cell = <<0>> THEN 0 ELSE cell[1]

\* GET /metrics: the query, then the payload built from its first row, or
\* from {} when it has none; every exception is answered with 500
GetMetrics(df, outcome) ==
    /\ loop = 0
    /\ IF outcome = "ok" THEN ReadClock ELSE now' = now
    /\ LET rate == SuccessRate(df)
       IN lastResp' =
            IF outcome # "ok"
            THEN [endpoint |-> "metrics", request |-> <<>>,
                  result |-> <<outcome>>, code |-> 500,
                  body |-> <<[detail |-> IF outcome = "connect"
                                         THEN ConnectError.text
                                         ELSE StatementError.text]>>]
            ELSE IF rate.raises
            THEN [endpoint |-> "metrics", request |-> <<>>,
                  result |-> <<"ok", df>>, code |-> 500,
                  body |-> <<[detail |-> <<rate.exc.text>>]>>]
            ELSE [endpoint |-> "metrics", request |-> <<>>,
                  result |-> <<"ok", df>>, code |-> 200,
                  body |-> <<[timestamp |-> now',
                              metrics |->
                                [total_jobs_24h |-> RowGet(df, "TOTAL_JOBS", 0)[1],
                                 completed_jobs_24h |-> RowGet(df, "COMPLETED_JOBS", 0)[1],
                                 failed_jobs_24h |-> RowGet(df, "FAILED_JOBS", 0)[1],
                                 running_jobs |-> RowGet(df, "RUNNING_JOBS", 0)[1],
                                 avg_execution_time_seconds |-> AvgExecutionTime(df),
                                 success_rate |-> rate.content]]>>]
    /\ UNCHANGED <<tasks, loop, jobs, puts, chat>>

\* ========================================================= chat front end
\* streamlit-app/app.py.  A question is a sequence of characters.  The SQL
\* templates are named by their first lines; timestamps of messages are
\* not kept.

\* the lower-case letter of each upper-case letter
ToLower ==
    [c \in {UpperLetters[i] : i \in DOMAIN UpperLetters} |->
        LowerLetters[CHOOSE i \in DOMAIN UpperLetters : UpperLetters[i] = c]]

\* str.lower() on one character
LowerChar(c) == IF c \in DOMAIN ToLower THEN ToLower[c] ELSE c

\* str.lower()
Lower(s) == [i \in DOMAIN s |-> LowerChar(s[i])]

\* word in text, on strings: word occurs as a substring
Contains(text, word) ==
    \E i \in 0..(Len(text) - Len(word)) :
        SubSeq(text, i + 1, i + Len(word)) = word

\* any(word in text for word in words)
AnyIn(text, words) == \E w \in words : Contains(text, w)

CustomerWords == {<<"c","u","s","t","o","m","e","r">>,
     <<"c","l","i","e","n","t">>}
ProductWords == {<<"p","r","o","d","u","c","t">>,
     <<"i","t","e","m">>}
OrderWords == {<<"o","r","d","e","r">>,
     <<"s","a","l","e">>,
     <<"r","e","v","e","n","u","e">>}
JobWords == {<<"j","o","b">>,
     <<"t","a","s","k">>,
     <<"p","r","o","c","e","s","s">>}
TopWords == {<<"t","o","p">>,
     <<"b","e","s","t">>,
     <<"h","i","g","h","e","s","t">>}
CountWords == {<<"c","o","u","n","t">>,
     <<"t","o","t","a","l">>,
     <<"n","u","m","b","e","r">>}
PriceWords == {<<"p","r","i","c","e">>,
     <<"c","o","s","t">>,
     <<"e","x","p","e","n","s","i","v","e">>}
RecentWords == {<<"r","e","c","e","n","t">>,
     <<"l","a","t","e","s","t">>,
     <<"n","e","w">>}

TopCustomers == "SELECT customer_name, customer_tier, lifetime_value ... ORDER BY lifetime_value DESC LIMIT 10"
CustomerCounts == "SELECT customer_tier, COUNT(*) as customer_count ... WHERE is_active = TRUE GROUP BY customer_tier"
CustomerTiers == "SELECT customer_tier, COUNT(*) as count, AVG(lifetime_value) as avg_ltv ... GROUP BY customer_tier"
ProductPrices == "SELECT product_name, category, price, cost ... ORDER BY price DESC LIMIT 15"
ProductCategories == "SELECT category, COUNT(*) as product_count ... GROUP BY category"
RecentOrders == "SELECT o.order_id, c.customer_name ... ORDER BY o.order_date DESC LIMIT 20"
MonthlyOrders == "SELECT DATE_TRUNC('month', order_date) as month ... GROUP BY DATE_TRUNC('month', order_date)"
JobSummary == "SELECT job_type, status, COUNT(*) as job_count ... GROUP BY job_type, status"

\* the customer branch with its two tests in the other order
CustomerTemplate_countfirst(question_lower) ==
    IF AnyIn(question_lower, CountWords) THEN <<CustomerCounts>>
    ELSE IF AnyIn(question_lower, TopWords) THEN <<TopCustomers>>
    ELSE <<CustomerTiers>>

CustomerTemplate(question_lower) ==
    IF AnyIn(question_lower, TopWords) THEN <<TopCustomers>>
    ELSE IF AnyIn(question_lower, CountWords) THEN <<CustomerCounts>>
    ELSE <<CustomerTiers>>

ProductTemplate(question_lower) ==
    IF AnyIn(question_lower, PriceWords) THEN <<ProductPrices>>
    ELSE <<ProductCategories>>

OrderTemplate(question_lower) ==
    IF AnyIn(question_lower, RecentWords) THEN <<RecentOrders>>
    ELSE <<MonthlyOrders>>

\* f"SELECT 'Your question: {question}' as question_asked, ..."
DefaultTemplate(question) ==
    <<"SELECT 'Your question: ">> \o question
        \o <<"' as question_asked, 'This is a simulated Cortex Analyst response' as response_type, ...">>

\* the translation with the product test before the customer test
_simulate_cortex_translation_productfirst(question) ==
    LET question_lower == Lower(question)
    IN  IF AnyIn(question_lower, ProductWords) THEN ProductTemplate(question_lower)
        ELSE IF AnyIn(question_lower, CustomerWords) THEN CustomerTemplate(question_lower)
        ELSE IF AnyIn(question_lower, OrderWords) THEN OrderTemplate(question_lower)
        ELSE IF AnyIn(question_lower, JobWords) THEN <<JobSummary>>
        ELSE DefaultTemplate(question)

_simulate_cortex_translation(question) ==
    LET question_lower == Lower(question)
    IN  IF AnyIn(question_lower, CustomerWords) THEN CustomerTemplate(question_lower)
        ELSE IF AnyIn(question_lower, ProductWords) THEN ProductTemplate(question_lower)
        ELSE IF AnyIn(question_lower, OrderWords) THEN OrderTemplate(question_lower)
        ELSE IF AnyIn(question_lower, JobWords) THEN <<JobSummary>>
        ELSE DefaultTemplate(question)

\* get_semantic_models
SemanticModels ==
    <<"ANALYTICS_PLATFORM_MODEL", "SALES_PERFORMANCE_MODEL",
      "CUSTOMER_INSIGHTS_MODEL", "OPERATIONAL_METRICS_MODEL">>

\* query_cortex_analyst: the response when session.sql(sql_query).to_pandas()
\* returns, and when it raises
query_cortex_analyst(user_question, semantic_model, raises) ==
    LET sql_query == _simulate_cortex_translation(user_question)
    IN  IF raises
        THEN [sql_query |-> NoText, results |-> NULL, success |-> FALSE,
              explanation |-> <<"Error processing your question: ", "SQL execution error">>]
        ELSE [sql_query |-> sql_query, results |-> <<"DataFrame">>, success |-> TRUE,
              explanation |->
                <<"Cortex Analyst translated your question into SQL and executed it against the ",
                  semantic_model, " semantic model.">>]

\* the words questions are made of, and the questions of up to MaxWords
\* words
Vocabulary ==
    {<<"C","u","s","t","o","m","e","r","s">>,
     <<"i","t","e","m","s">>,
     <<"w","h","o","l","e","s","a","l","e">>,
     <<"t","a","s","k">>,
     <<"s","t","o","p">>,
     <<"B","e","s","t">>,
     <<"t","o","t","a","l">>,
     <<"c","o","s","t">>,
     <<"n","e","w","s">>,
     <<"H","e","l","l","o">>}

RECURSIVE Join(_)
\* " ".join(words)
Join(words) ==
    IF Len(words) = 1 THEN words[1]
    ELSE words[1] \o <<" ">> \o Join(Tail(words))

Questions ==
    {Join(words) : words \in UNION {[1..n -> Vocabulary] : n \in 1..MaxWords}}

\* sample_questions in render_sidebar
SampleQuestions == 
    {<<"S","h","o","w"," ","m","e"," ","t","o","p"," ","1","0"," ","c","u","s","t","o","m","e","r","s"," ","b","y"," ","l","i","f","e","t","i","m","e"," ","v","a","l","u","e">>,
     <<"W","h","a","t"," ","a","r","e"," ","o","u","r"," ","p","r","o","d","u","c","t"," ","c","a","t","e","g","o","r","i","e","s"," ","a","n","d"," ","t","h","e","i","r"," ","a","v","e","r","a","g","e"," ","p","r","i","c","e","s","?">>,
     <<"H","o","w"," ","m","a","n","y"," ","o","r","d","e","r","s"," ","w","e","r","e"," ","p","l","a","c","e","d"," ","i","n"," ","t","h","e"," ","l","a","s","t"," ","3","0"," ","d","a","y","s","?">>,
     <<"W","h","a","t","'","s"," ","t","h","e"," ","s","t","a","t","u","s"," ","o","f"," ","r","e","c","e","n","t"," ","j","o","b","s","?">>,
     <<"S","h","o","w"," ","m","e"," ","c","u","s","t","o","m","e","r"," ","d","i","s","t","r","i","b","u","t","i","o","n"," ","b","y"," ","t","i","e","r">>}

\* the questions typed in SpecChat
ChatTexts == {<<"H","e","l","l","o">>, <<"c","l","i","e","n","t"," ","c","o","u","n","t">>}

UserMessage(content) ==
    [role |-> "user", content |-> content, sql_query |-> NoText, results |-> NULL]

\* the assistant message handle_user_input builds from the response
AssistantMessage(response) ==
    IF response.success
    THEN [role |-> "assistant", content |-> response.explanation,
          sql_query |-> response.sql_query, results |-> response.results]
    ELSE [role |-> "assistant",
          content |-> <<"I encountered an issue: ">> \o response.explanation,
          sql_query |-> NoText, results |-> NULL]

\* handle_user_input with a non-empty st.chat_input: the user message, the
\* query, the assistant message, then st.rerun()
HandleUserInput(user_input, semantic_model, raises, limit) ==
    /\ chat.turns < limit
    /\ LET response == query_cortex_analyst(user_input, semantic_model, raises)
       IN chat' = [messages |-> chat.messages \o
                        <<UserMessage(user_input), AssistantMessage(response)>>,
                   log |-> Append(chat.log, _simulate_cortex_translation(user_input)),
                   turns |-> chat.turns + 1]
    /\ UNCHANGED <<now, tasks, loop, jobs, puts, lastResp>>

\* render_sidebar, a sample question button: the question is appended as a
\* user message and the script reruns; the rerun finds no chat input
SampleQuestionButton(question, limit) ==
    /\ chat.turns < limit
    /\ chat' = [chat EXCEPT !.messages = Append(@, UserMessage(question)),
                            !.turns = @ + 1]
    /\ UNCHANGED <<now, tasks, loop, jobs, puts, lastResp>>

\* render_sidebar, Clear Chat History
ClearChatHistory ==
    /\ chat' = [chat EXCEPT !.messages =
                    <<[role |-> "assistant",
                       content |-> <<"Chat history cleared. How can I help you with your data?">>,
                       sql_query |-> NoText, results |-> NULL]>>]
    /\ UNCHANGED <<now, tasks, loop, jobs, puts, lastResp>>

\* ================================================================ specifications
\* a job of any kind, and after it jobs of one kind, each from the request
\* to the end of its task
Next ==
    \/ \E request \in RequestsAfter(Len(tasks)), outcome \in HandlerOutcomes :
            ProcessJob(request, outcome, MaxTasks)
    \/ \E t \in TaskIds : StartTask(t)
    \/ \E t \in TaskIds : RunningGetConnection(t)
    \/ \E t \in TaskIds : RunningExecute(t)
    \/ \E t \in TaskIds : GenerateReport(t)
    \/ \E t \in TaskIds : QueryGetConnection(t)
    \/ \E t \in TaskIds : QueryExecute(t)
    \/ \E t \in TaskIds : CreateReportContent(t)
    \/ \E t \in TaskIds : UploadToS3(t)
    \/ \E t \in TaskIds : CompletedGetConnection(t)
    \/ \E t \in TaskIds : CompletedExecute(t)
    \/ \E t \in TaskIds : FailedGetConnection(t)
    \/ \E t \in TaskIds : FailedExecute(t)

Spec == Init /\ [][Next]_vars

\* the steps of the background tasks
TaskNext ==
    \E t \in TaskIds :
        \/ StartTask(t) \/ RunningGetConnection(t) \/ RunningExecute(t)
        \/ GenerateReport(t) \/ QueryGetConnection(t) \/ QueryExecute(t)
        \/ CreateReportContent(t) \/ UploadToS3(t)
        \/ CompletedGetConnection(t) \/ CompletedExecute(t)
        \/ FailedGetConnection(t) \/ FailedExecute(t)

\* the bodies posted in SpecLive: a job with an unsupported tag or a sales
\* report first, then the repeated job
LiveRequests(n) ==
    IF n = 0
    THEN {r \in JobRequests :
            /\ r.job_type = REPORT
            /\ r.input_data \in {EmptyDict, [report_type |-> sales_report_lower]}}
    ELSE LaterRequests

\* jobs from the request to the end of their tasks, where the event loop
\* keeps running the tasks it holds and every warehouse and storage call
\* returns or raises
NextLive ==
    \/ \E request \in LiveRequests(Len(tasks)), outcome \in HandlerOutcomes :
            ProcessJob(request, outcome, MaxTasks)
    \/ \E t \in TaskIds : StartTask(t)
    \/ \E t \in TaskIds : RunningGetConnection(t)
    \/ \E t \in TaskIds : RunningExecute(t)
    \/ \E t \in TaskIds : GenerateReport(t)
    \/ \E t \in TaskIds : QueryGetConnection(t)
    \/ \E t \in TaskIds : QueryExecute(t)
    \/ \E t \in TaskIds : CreateReportContent(t)
    \/ \E t \in TaskIds : UploadToS3(t)
    \/ \E t \in TaskIds : CompletedGetConnection(t)
    \/ \E t \in TaskIds : CompletedExecute(t)
    \/ \E t \in TaskIds : FailedGetConnection(t)
    \/ \E t \in TaskIds : FailedExecute(t)

SpecLive == Init /\ [][NextLive]_vars /\ WF_vars(TaskNext)

\* several jobs of one kind, one after the other
NextJobs ==
    \/ \E request \in RepeatedRequests : ProcessJob(request, "ok", MaxJobs)
    \/ \E t \in TaskIds : StartTask(t)
    \/ \E t \in TaskIds : RunningGetConnection(t)
    \/ \E t \in TaskIds : RunningExecute(t)
    \/ \E t \in TaskIds : GenerateReport(t)
    \/ \E t \in TaskIds : QueryGetConnection(t)
    \/ \E t \in TaskIds : QueryExecute(t)
    \/ \E t \in TaskIds : CreateReportContent(t)
    \/ \E t \in TaskIds : UploadToS3(t)
    \/ \E t \in TaskIds : CompletedGetConnection(t)
    \/ \E t \in TaskIds : CompletedExecute(t)
    \/ \E t \in TaskIds : FailedGetConnection(t)
    \/ \E t \in TaskIds : FailedExecute(t)

SpecJobs == Init /\ [][NextJobs]_vars

\* jobs of one kind with different job ids, accepted and processed in any
\* order the event loop allows
NextPair ==
    \/ \E request \in RepeatedRequests :
            /\ \A t \in TaskIds : tasks[t].job_id # request.job_id
            /\ ProcessJob(request, "ok", MaxJobs)
    \/ \E t \in TaskIds : StartTask(t)
    \/ \E t \in TaskIds : RunningGetConnection(t)
    \/ \E t \in TaskIds : RunningExecute(t)
    \/ \E t \in TaskIds : GenerateReport(t)
    \/ \E t \in TaskIds : QueryGetConnection(t)
    \/ \E t \in TaskIds : QueryExecute(t)
    \/ \E t \in TaskIds : CreateReportContent(t)
    \/ \E t \in TaskIds : UploadToS3(t)
    \/ \E t \in TaskIds : CompletedGetConnection(t)
    \/ \E t \in TaskIds : CompletedExecute(t)
    \/ \E t \in TaskIds : FailedGetConnection(t)
    \/ \E t \in TaskIds : FailedExecute(t)

SpecPair == Init /\ [][NextPair]_vars

\* the status endpoint, while jobs of one kind are processed
NextStatus ==
    \/ \E request \in RepeatedRequests : ProcessJob(request, "ok", MaxTasks)
    \/ \E job_id \in JobIds \cup {UnknownJobId},
          outcome \in QueryOutcomes \cup {"connect"} :
            GetJobStatus(job_id, outcome)
    \/ \E t \in TaskIds : StartTask(t)
    \/ \E t \in TaskIds : RunningGetConnection(t)
    \/ \E t \in TaskIds : RunningExecute(t)
    \/ \E t \in TaskIds : GenerateReport(t)
    \/ \E t \in TaskIds : QueryGetConnection(t)
    \/ \E t \in TaskIds : QueryExecute(t)
    \/ \E t \in TaskIds : CreateReportContent(t)
    \/ \E t \in TaskIds : UploadToS3(t)
    \/ \E t \in TaskIds : CompletedGetConnection(t)
    \/ \E t \in TaskIds : CompletedExecute(t)
    \/ \E t \in TaskIds : FailedGetConnection(t)
    \/ \E t \in TaskIds : FailedExecute(t)

SpecStatus == Init /\ [][NextStatus]_vars

\* the metrics endpoint, for every result its query may have
NextMetrics ==
    \E df \in MetricsFrames, outcome \in QueryOutcomes \cup {"connect"} :
        GetMetrics(df, outcome)

SpecMetrics == Init /\ [][NextMetrics]_vars

\* the first question of a chat session, for every question
NextSelect ==
    /\ chat.turns = 0
    /\ \E user_input \in Questions, i \in DOMAIN SemanticModels, raises \in BOOLEAN :
            HandleUserInput(user_input, SemanticModels[i], raises, 1)

SpecSelect == Init /\ [][NextSelect]_vars

\* a chat session: questions typed, sample questions clicked, the history
\* cleared
NextChat ==
    \/ \E user_input \in ChatTexts, i \in DOMAIN SemanticModels, raises \in BOOLEAN :
            HandleUserInput(user_input, SemanticModels[i], raises, MaxTurns)
    \/ \E question \in SampleQuestions : SampleQuestionButton(question, MaxTurns)
    \/ ClearChatHistory

SpecChat == Init /\ [][NextChat]_vars

TypeOK ==
    /\ now \in 0..MaxClock
    /\ loop \in 0..(MaxTasks + MaxJobs)
    /\ Len(tasks) <= MaxTasks + MaxJobs

\* ================================================================ claims
Ended(task) == task.pc \in {"done", "crashed"}
Terminal(u) == u.status \in {"COMPLETED", "FAILED"}
\* the positions of the terminal updates among the calls a task issued
TerminalUpdates(task) == {i \in DOMAIN task.updates : Terminal(task.updates[i])}
SentWith(task, status) ==
    {i \in DOMAIN task.updates :
        task.updates[i].status = status /\ task.updates[i].sent}

\* a terminal update as the lifecycle wants it: COMPLETED with an output
\* location, or FAILED with an error message
WellFormedTerminal(u) ==
    \/ u.status = "COMPLETED" /\ u.output_location # NoText
                              /\ ~IsEmptyText(u.output_location)
    \/ u.status = "FAILED" /\ u.error_message # NoText
                           /\ ~IsEmptyText(u.error_message)

\* C1: the status updates a background task issues for its job are RUNNING
\* first and then exactly one terminal update, COMPLETED with a non-empty
\* output location or FAILED with a non-empty error message, on every path.
C1_OneStatusSequence ==
    \A t \in TaskIds :
        LET u == tasks[t].updates
        IN  /\ Len(u) >= 1 => u[1].status = "RUNNING"
            /\ \A i \in DOMAIN u : i > 1 => Terminal(u[i]) /\ WellFormedTerminal(u[i])
            /\ Cardinality(TerminalUpdates(tasks[t])) <= 1
            /\ Ended(tasks[t]) => Cardinality(TerminalUpdates(tasks[t])) = 1

\* C2: no background task has sent both a COMPLETED and a FAILED status
\* update to the warehouse.
C2_NeverBothTerminal ==
    \A t \in TaskIds :
        SentWith(tasks[t], "COMPLETED") = {} \/ SentWith(tasks[t], "FAILED") = {}

\* C3: GET /job/{id}/status answers 404 when the warehouse returns no row
\* for the job id, and 200 with the row's status, output location, error
\* message and elapsed seconds when it returns a row.
C3_MissingJobIsNotFound ==
    (lastResp.endpoint = "job-status" /\ lastResp.result[1] = "ok") =>
        IF lastResp.result[2] = <<>>
        THEN lastResp.code = 404
        ELSE /\ lastResp.code = 200
             /\ lastResp.body[1].status = lastResp.result[2][1].status
             /\ lastResp.body[1].output_location = lastResp.result[2][1].output_location
             /\ lastResp.body[1].error_message = lastResp.result[2][1].error_message
             /\ lastResp.body[1].execution_time_seconds =
                    lastResp.result[2][1].execution_time_seconds

\* a task whose report type has been determined and is not one of the five
Unsupported(task) ==
    task.report_type # <<>> /\ Upper(task.report_type) \notin GeneratorKeys

PutsOf(t) == {i \in DOMAIN puts : puts[i].task = t}

\* C4: for a report type whose upper-cased tag is not one of the five keys,
\* generate_report raises the unsupported-type error at once: no generator
\* is selected, no report query is executed and nothing is written to
\* storage for that job.
C4_UnsupportedTypeFailsWithoutStorage ==
    \A t \in TaskIds :
        Unsupported(tasks[t]) =>
            /\ tasks[t].generator = None
            /\ tasks[t].raised = "generate"
            /\ tasks[t].pc \in {"except", "update_failed_execute", "done", "crashed"}
            /\ tasks[t].queries = 0
            /\ tasks[t].uploads = 0
            /\ PutsOf(t) = {}
            /\ tasks[t].pc = "except" =>
                    tasks[t].exc = Exc("ValueError",
                        <<"Unsupported report type: ">> \o tasks[t].report_type)
            /\ \A i \in DOMAIN tasks[t].updates :
                    tasks[t].updates[i].status = "FAILED" =>
                        tasks[t].updates[i].error_message =
                            <<"Job processing failed: ", "Unsupported report type: ">>
                                \o tasks[t].report_type

\* a job with an unsupported report type has run to its end and its
\* FAILED update has reached the warehouse
C4_Witness ==
    \E t \in TaskIds :
        /\ Unsupported(tasks[t])
        /\ tasks[t].pc = "done"
        /\ SentWith(tasks[t], "FAILED") # {}

FixedKeys == {"report_type", "generated_at", "parameters", "data"}

\* C5: every report document uploaded has the top-level keys report_type,
\* generated_at, parameters, data and exactly one of summary or metrics,
\* and data is the dump of the rows the query returned.
C5_FixedDocumentShape ==
    \A i \in DOMAIN puts :
        LET doc == puts[i].Body
            task == tasks[puts[i].task]
        IN  /\ FixedKeys \subseteq DOMAIN doc
            /\ (DOMAIN doc) \ FixedKeys \in {{"summary"}, {"metrics"}}
            /\ ~Ended(task) => doc.data = task.df

InExceptClause(task) ==
    task.raised # "" /\ task.pc \in {"update_failed_execute", "done", "crashed"}

C7_NoUploadAfterFailedGeneration ==
    \A t \in TaskIds :
        /\ tasks[t].raised \in {"query", "query_execute", "create_content"} =>
                tasks[t].uploads = 0 /\ PutsOf(t) = {}
        /\ tasks[t].pc = "upload" =>
                /\ tasks[t].raised = ""
                /\ tasks[t].queries = 1
                /\ tasks[t].report_content # <<>>
        /\ PutsOf(t) # {} =>
                tasks[t].queries = 1 /\ tasks[t].raised \notin {"query", "query_execute", "create_content"}

\* the shaping of a query result has raised and the job has run to its end
C7_Witness ==
    \E t \in TaskIds :
        /\ tasks[t].raised = "create_content"
        /\ tasks[t].queries = 1
        /\ Ended(tasks[t])

\* C8: every key written is reports/<category>/<job_id>_<name>_<time>.json
\* with category and name fixed by the report type, and no two uploads
\* write the same key, so that no document is overwritten.
C8_KeysNeverOverwritten ==
    /\ \A i \in DOMAIN puts :
            \E time \in 0..MaxClock :
                puts[i].Key = <<"reports/", Category(tasks[puts[i].task].generator), "/",
                                tasks[puts[i].task].job_id, "_",
                                ReportName(tasks[puts[i].task].generator), "_",
                                Strftime(time), ".json">>
    /\ \A i, j \in DOMAIN puts : i # j => puts[i].Key # puts[j].Key

\* C9: a valid request whose handler does not raise is answered with the
\* acknowledgment (accepted, job id, tracking id, estimate); in that step
\* exactly one background task is added, not yet started, and no warehouse
\* or storage call is made.
C9_AckAfterScheduling ==
    [][(lastResp'.endpoint = "process-job" /\ lastResp'.result[1] = "ok") =>
            LET request == lastResp'.request[1]
                body == lastResp'.body[1]
                n == Len(tasks)
            IN  /\ lastResp'.code = 200
                /\ body.status = "accepted"
                /\ body.job_id = request.job_id
                /\ body.tracking_id = <<"ECS_TRACK_", request.job_id, "_", now'>>
                /\ body.estimated_completion
                        \in {"5-10 minutes", "10-15 minutes", "2-5 minutes"}
                /\ Len(tasks') = n + 1
                /\ SubSeq(tasks', 1, n) = tasks
                /\ tasks'[n + 1].job_id = request.job_id
                /\ tasks'[n + 1].pc = "scheduled"
                /\ tasks'[n + 1].updates = <<>>
                /\ tasks'[n + 1].queries = 0
                /\ tasks'[n + 1].uploads = 0
                /\ ~tasks'[n + 1].conn
                /\ jobs' = jobs
                /\ puts' = puts
                /\ loop' = loop]_vars

\* the acknowledgment has been returned and the task of the job is
\* scheduled, not started
C9_Witness ==
    /\ lastResp.endpoint = "process-job"
    /\ lastResp.code = 200
    /\ lastResp.body[1].status = "accepted"
    /\ Len(tasks) >= 1
    /\ tasks[Len(tasks)].pc = "scheduled"

\* C10: a body whose priority is outside 1..5, or that lacks a required
\* field, is answered with a client error, and in that step no task is
\* added and no status update is issued; a valid request whose handler
\* raises is answered with a server error 500.
C10_RejectBeforeScheduling ==
    [][lastResp'.endpoint = "process-job" =>
            LET request == lastResp'.request[1]
                malformed == \/ ~request.wellformed
                             \/ request.priority < PriorityMin
                             \/ request.priority > PriorityMax
            IN  /\ malformed =>
                    /\ lastResp'.code \in 400..499
                    /\ tasks' = tasks
                    /\ jobs' = jobs
                    /\ puts' = puts
                /\ (~malformed /\ lastResp'.result[1] # "ok") => lastResp'.code = 500
                /\ (~malformed /\ lastResp'.result[1] = "ok") => lastResp'.code = 200]_vars

\* a body with priority 6 has been rejected
C10_Witness ==
    /\ lastResp.endpoint = "process-job"
    /\ lastResp.request[1].priority = PriorityMax + 1
    /\ lastResp.code = 422
    /\ tasks = <<>>

\* C11: no limit or backpressure delays an accepted job: the background
\* tasks of accepted jobs run at once, so the first task that waits to
\* start can start whatever the tasks before it are doing.
C11_AcceptedJobStartsAtOnce ==
    \A t \in TaskIds :
        (/\ tasks[t].pc = "scheduled"
         /\ \A u \in 1..(t - 1) : tasks[u].pc # "scheduled")
            => ENABLED StartTask(t)

\* the status the warehouse holds for the job of a task
StatusOf(task) == jobs[task.job_id].status

\* C12: every accepted job has a terminal status, COMPLETED or FAILED,
\* recorded in the warehouse once its background task has run to its end;
\* no job is left RUNNING.
C12_EndedJobHasTerminalStatus ==
    \A t \in TaskIds :
        Ended(tasks[t]) => StatusOf(tasks[t]) \in {"COMPLETED", "FAILED"}

\* C12 as amended: the task of every accepted job runs to its end; when it
\* ends normally the warehouse holds a terminal status for the job, and it
\* ends by an exception leaving the task only when the FAILED update
\* raised.
C12_AcceptedJobRunsToItsEnd ==
    \A t \in 1..MaxTasks :
        (t \in TaskIds /\ ~Ended(tasks[t])) ~>
            (/\ t \in TaskIds
             /\ Ended(tasks[t])
             /\ tasks[t].pc = "done" => StatusOf(tasks[t]) \in {"COMPLETED", "FAILED"}
             /\ tasks[t].pc = "crashed" =>
                    /\ tasks[t].updates # <<>>
                    /\ tasks[t].updates[Len(tasks[t].updates)].status = "FAILED")

\* a job whose task ended by the exception of its FAILED update, left
\* RUNNING in the warehouse
C12_Witness ==
    \E t \in TaskIds :
        /\ tasks[t].pc = "crashed"
        /\ StatusOf(tasks[t]) = "RUNNING"

\* a task whose report query has returned no row and whose formatter has
\* been called on it
ShapedEmpty(task) ==
    task.queries = 1 /\ task.df = <<>> /\ task.pc \in {"upload", "except"}

\* C13: on an empty result set none of the five formatters raises; the
\* sales summary has total_months = 0 and latest_revenue = 0, and the
\* ratios of the other summaries are computed, with 0 as their value.
C13_EmptyResultIsSummarised ==
    \A t \in TaskIds :
        ShapedEmpty(tasks[t]) =>
            LET task == tasks[t]
                gen == task.generator
            IN  /\ task.raised # "create_content"
                /\ task.pc = "upload" =>
                    LET doc == task.report_content[1]
                    IN  /\ gen = "generate_sales_report" =>
                            /\ doc.summary.total_months = 0
                            /\ doc.summary.latest_revenue = 0
                            /\ doc.summary.total_orders_ytd = 0
                        /\ gen = "generate_customer_analysis" =>
                            /\ doc.summary.total_customers = 0
                            /\ doc.summary.total_revenue = 0
                        /\ gen = "generate_product_performance" =>
                            /\ doc.summary.total_products = 0
                            /\ doc.summary.top_product = None
                        /\ gen = "generate_executive_dashboard" =>
                            /\ doc.metrics.jobs_today = 0
                            /\ doc.metrics.jobs_success_rate = 0
                        /\ gen = "generate_data_quality_report" =>
                            /\ doc.summary.total_checks = 0
                            /\ doc.summary.success_rate = 0

\* the sales formatter has returned its document for an empty result set
C13_Witness ==
    \E t \in TaskIds :
        /\ ShapedEmpty(tasks[t])
        /\ tasks[t].pc = "upload"
        /\ tasks[t].generator = "generate_sales_report"
        /\ tasks[t].report_content # <<>>

\* C14: whenever the metrics query succeeds the handler answers, with
\* success_rate = completed / max(total, 1) * 100: 0 when total is 0, and
\* between 0 and 100 when completed <= total.
C14_SuccessRate ==
    (lastResp.endpoint = "metrics" /\ lastResp.result[1] = "ok") =>
        LET df == lastResp.result[2]
            completed == IF df = <<>> THEN 0 ELSE df[1].COMPLETED_JOBS[1]
            total == IF df = <<>> THEN 0 ELSE df[1].TOTAL_JOBS[1]
            floor == IF total >= 1 THEN total ELSE 1
        IN  /\ lastResp.code = 200
            /\ LET rate == lastResp.body[1].metrics.success_rate
               IN  /\ rate.den > 0
                   /\ rate.num * floor = completed * 100 * rate.den
                   /\ total = 0 => rate.num = 0
                   /\ completed <= total =>
                        (0 <= rate.num /\ rate.num <= 100 * rate.den)

\* the metrics of a day without jobs have been answered
C14_Witness ==
    /\ lastResp.endpoint = "metrics"
    /\ lastResp.code = 200
    /\ lastResp.result[2] # <<>>
    /\ lastResp.result[2][1].TOTAL_JOBS = <<0>>
    /\ lastResp.body[1].metrics.success_rate.num = 0

\* two characters that are equal or the two cases of one letter
SameLetter(a, b) ==
    \/ a = b
    \/ \E i \in DOMAIN LowerLetters :
            {a, b} = {LowerLetters[i], UpperLetters[i]}

\* two tags that differ at most in letter case
SameTag(a, b) ==
    /\ Len(a) = Len(b)
    /\ \A i \in DOMAIN a : SameLetter(a[i], b[i])

\* the query+formatter pair of each of the five tags: the generator, the
\* title its formatter writes and the category of its storage key
PairOf(key) ==
    CASE key = SALES_REPORT ->
            [gen |-> "generate_sales_report", title |-> "Sales Performance Report",
             category |-> "sales"]
      [] key = CUSTOMER_ANALYSIS ->
            [gen |-> "generate_customer_analysis", title |-> "Customer Analysis Report",
             category |-> "customers"]
      [] key = PRODUCT_PERFORMANCE ->
            [gen |-> "generate_product_performance", title |-> "Product Performance Report",
             category |-> "products"]
      [] key = EXECUTIVE_DASHBOARD ->
            [gen |-> "generate_executive_dashboard", title |-> "Executive Dashboard",
             category |-> "executive"]
      [] key = DATA_QUALITY ->
            [gen |-> "generate_data_quality_report", title |-> "Data Quality Report",
             category |-> "quality"]

\* C15: a tag that is one of the five keys up to letter case selects the
\* pair of that key, the five keys have five different pairs, and one call
\* of generate_report runs one pair, once: one query, one document of that
\* pair, one key in its category.
C15_DispatchIgnoresCase ==
    /\ \A k1, k2 \in GeneratorKeys :
            k1 # k2 => /\ PairOf(k1).gen # PairOf(k2).gen
                       /\ PairOf(k1).title # PairOf(k2).title
                       /\ PairOf(k1).category # PairOf(k2).category
    /\ \A t \in TaskIds :
        LET task == tasks[t]
        IN  \A key \in GeneratorKeys :
                (task.report_type # <<>> /\ SameTag(task.report_type, key)) =>
                    /\ task.generator = PairOf(key).gen
                    /\ task.raised # "generate"
                    /\ task.queries <= 1
                    /\ task.df \in Frames(PairOf(key).gen)
                    /\ task.report_content # <<>> =>
                            task.report_content[1].report_type = PairOf(key).title
                    /\ Cardinality(PutsOf(t)) <= 1
                    /\ \A i \in PutsOf(t) :
                            /\ puts[i].Key[2] = PairOf(key).category
                            /\ puts[i].Body.report_type = PairOf(key).title

\* a job tagged sales_report in lower case has had the sales report
\* generated and stored
C15_Witness ==
    \E t \in TaskIds :
        /\ tasks[t].report_type = sales_report_lower
        /\ tasks[t].generator = "generate_sales_report"
        /\ \E i \in PutsOf(t) : puts[i].Key[2] = "sales"

\* the categories in their order of precedence, with their keywords and
\* their templates
Categories ==
    <<[words |-> CustomerWords, templates |-> {TopCustomers, CustomerCounts, CustomerTiers}],
      [words |-> ProductWords, templates |-> {ProductPrices, ProductCategories}],
      [words |-> OrderWords, templates |-> {RecentOrders, MonthlyOrders}],
      [words |-> JobWords, templates |-> {JobSummary}]>>

\* the categories of which a text contains a keyword, in any case
Present(text) ==
    LET lowered == Lower(text)
    IN  {c \in DOMAIN Categories : AnyIn(lowered, Categories[c].words)}

\* the text contains one of the words, in any case
Mentions(text, words) == AnyIn(Lower(text), words)

\* the default template around some text
IsDefault(sql) ==
    /\ Len(sql) >= 2
    /\ sql[1] = "SELECT 'Your question: "
    /\ sql[Len(sql)] = "' as question_asked, 'This is a simulated Cortex Analyst response' as response_type, ..."

\* the question of the n-th statement of a session in which every user
\* message was typed: the n-th user message
TypedQuestion(n) == chat.messages[2 * n].content

\* C16: the template selected for a question is determined by the text of
\* the question alone, whatever semantic model is selected and whether or
\* not the statement then runs: a text with keywords of one or more
\* categories selects a template of the first of them in the order
\* customer, product, order, job, and a text with no category keyword
\* selects the default template.
C16_SelectionByPrecedence ==
    \A n \in DOMAIN chat.log :
        LET text == TypedQuestion(n)
            sql == chat.log[n]
            present == Present(text)
        IN  /\ chat.messages[2 * n].role = "user"
            /\ chat.messages[2 * n + 1].sql_query \in {NoText, sql}
            /\ present = {} => IsDefault(sql)
            /\ present # {} =>
                    \E c \in present :
                        /\ \A d \in present : c <= d
                        /\ Len(sql) = 1
                        /\ sql[1] \in Categories[c].templates

\* a question with a customer keyword and a product keyword has selected a
\* customer template
C16_Witness ==
    \E n \in DOMAIN chat.log :
        /\ {1, 2} \subseteq Present(TypedQuestion(n))
        /\ chat.log[n][1] \in Categories[1].templates

\* C17: within the category selected, the template is chosen by the
\* secondary keywords alone: customer questions get the top customers for
\* top/best/highest, otherwise the counts for count/total/number, otherwise
\* the tier distribution; product questions get the prices for
\* price/cost/expensive, otherwise the category summary; order questions
\* get the recent orders for recent/latest/new, otherwise the monthly
\* summary; job questions get the one job template; and the default
\* template carries the question exactly as it was typed.
C17_SecondaryKeywords ==
    \A n \in DOMAIN chat.log :
        LET text == TypedQuestion(n)
            sql == chat.log[n]
        IN  /\ sql[1] \in Categories[1].templates =>
                sql[1] = IF Mentions(text, TopWords) THEN TopCustomers
                         ELSE IF Mentions(text, CountWords) THEN CustomerCounts
                         ELSE CustomerTiers
            /\ sql[1] \in Categories[2].templates =>
                sql[1] = IF Mentions(text, PriceWords) THEN ProductPrices
                         ELSE ProductCategories
            /\ sql[1] \in Categories[3].templates =>
                sql[1] = IF Mentions(text, RecentWords) THEN RecentOrders
                         ELSE MonthlyOrders
            /\ Present(text) = {4} => sql = <<JobSummary>>
            /\ Present(text) = {} =>
                sql = <<"SELECT 'Your question: ">> \o text
                        \o <<"' as question_asked, 'This is a simulated Cortex Analyst response' as response_type, ...">>

\* a customer question with one of top/best/highest and one of
\* count/total/number has selected the top customers
C17_Witness ==
    \E n \in DOMAIN chat.log :
        LET text == TypedQuestion(n)
        IN  /\ 1 \in Present(text)
            /\ Mentions(text, TopWords)
            /\ Mentions(text, CountWords)
            /\ chat.log[n] = <<TopCustomers>>

\* C18: every user turn of the chat runs one query and is answered at
\* once: as many statements have been passed to the warehouse as user
\* messages have been appended, and every user message in the history is
\* immediately followed by one assistant message, carrying the results or
\* reporting the error, whether the message was typed or came from a
\* sample question button.
C18_EveryTurnIsAnswered ==
    /\ Len(chat.log) = chat.turns
    /\ \A i \in DOMAIN chat.messages :
            chat.messages[i].role = "user" =>
                /\ i < Len(chat.messages)
                /\ chat.messages[i + 1].role = "assistant"
                /\ \/ chat.messages[i + 1].results # NULL
                   \/ chat.messages[i + 1].content[1] = "I encountered an issue: "
                /\ i + 2 <= Len(chat.messages) =>
                        chat.messages[i + 2].role = "user"

\* the positions of the updates to a status among the calls a task issued
IssuedWith(task, status) ==
    {i \in DOMAIN task.updates : task.updates[i].status = status}

\* C19: nothing is retried: whatever fails, the background task of a job
\* executes the report query at most once, attempts the storage write at
\* most once and issues each of the RUNNING, COMPLETED and FAILED updates
\* at most once.
C19_NothingIsRetried ==
    \A t \in TaskIds :
        /\ tasks[t].queries <= 1
        /\ tasks[t].uploads <= 1
        /\ Cardinality(PutsOf(t)) <= tasks[t].uploads
        /\ \A status \in {"RUNNING", "COMPLETED", "FAILED"} :
                Cardinality(IssuedWith(tasks[t], status)) <= 1

\* a task whose storage write was rejected has ended after one query, one
\* write attempt, one RUNNING and one FAILED update
C19_Witness ==
    \E t \in TaskIds :
        /\ Ended(tasks[t])
        /\ tasks[t].raised = "upload"
        /\ tasks[t].queries = 1
        /\ tasks[t].uploads = 1
        /\ PutsOf(t) = {}
        /\ Cardinality(IssuedWith(tasks[t], "RUNNING")) = 1
        /\ Cardinality(IssuedWith(tasks[t], "FAILED")) = 1

\* the step of the try block that raised is none of the steps given
Passed(task, steps) == task.raised \notin steps

\* C20: the steps of a job occur in the order RUNNING update, report query,
\* shaping, storage upload, COMPLETED update: a query has been executed
\* only if the RUNNING update was the first call, reached the warehouse and
\* returned; a storage write has been attempted only if the query returned
\* and the rows were shaped; and a COMPLETED update has been issued only
\* after the one storage write succeeded, as the call after the RUNNING
\* update, with the storage URI of the key written as its output location.
C20_StepsInOrder ==
    \A t \in TaskIds :
        LET task == tasks[t]
        IN  /\ (task.queries >= 1 \/ task.pc \in {"query", "query_execute"}) =>
                    /\ IssuedWith(task, "RUNNING") = {1}
                    /\ task.updates[1].sent
                    /\ Passed(task, {"update_running", "update_running_execute"})
            /\ (task.uploads >= 1 \/ task.pc = "upload") =>
                    /\ task.queries = 1
                    /\ Passed(task, {"update_running", "update_running_execute",
                                     "generate", "query", "query_execute",
                                     "create_content"})
            /\ IssuedWith(task, "COMPLETED") # {} =>
                    /\ IssuedWith(task, "COMPLETED") = {2}
                    /\ IssuedWith(task, "RUNNING") = {1}
                    /\ task.uploads = 1
                    /\ Passed(task, {"upload"})
                    /\ \E i \in PutsOf(t) :
                            /\ PutsOf(t) = {i}
                            /\ task.updates[2].output_location =
                                    <<"s3://", S3_BUCKET, "/">> \o puts[i].Key

\* a job is COMPLETED in the warehouse with the URI of the object its task
\* wrote
C20_Witness ==
    \E t \in TaskIds :
        /\ tasks[t].pc = "done"
        /\ SentWith(tasks[t], "COMPLETED") = {2}
        /\ tasks[t].queries = 1
        /\ \E i \in PutsOf(t) :
                jobs[tasks[t].job_id].output_location =
                    <<"s3://", S3_BUCKET, "/">> \o puts[i].Key

\* the positions of a task at which a call of execute_query or
\* update_job_status has opened its connection and not yet returned
InWarehouseCall ==
    {"update_running_execute", "query_execute",
     "update_completed_execute", "update_failed_execute"}

\* the tasks that hold an open connection
Connected == {t \in TaskIds : tasks[t].conn}

\* a connection is open only inside the call that opened it
ConnectionsScoped ==
    /\ \A t \in TaskIds : tasks[t].conn <=> tasks[t].pc \in InWarehouseCall
    /\ Cardinality(Connected) <= 1
    /\ loop = 0 => Connected = {}

\* the step of task t executes one statement: the report query, or the
\* CALL of the update issued last
ExecutesOneStatement(t) ==
    \/ /\ tasks[t].pc = "query_execute"
       /\ tasks'[t].queries = tasks[t].queries + 1
       /\ tasks'[t].updates = tasks[t].updates
    \/ /\ tasks[t].pc \in InWarehouseCall \ {"query_execute"}
       /\ tasks'[t].queries = tasks[t].queries
       /\ Len(tasks'[t].updates) = Len(tasks[t].updates)
       /\ \A i \in 1..(Len(tasks[t].updates) - 1) :
                tasks'[t].updates[i] = tasks[t].updates[i]

\* C21: every call of execute_query and update_job_status works on a
\* connection of its own: a connection is opened only at the start of such
\* a call, the step that follows executes the one statement of the call and
\* closes the connection, whether the call returns or raises, and no
\* statement is executed without it.  So a connection is open only inside
\* a call, at most one is open at a time, and none is open once the tasks
\* have ended.
C21_ConnectionPerCall ==
    [][/\ ConnectionsScoped
       /\ ConnectionsScoped'
       /\ \A t \in TaskIds :
            /\ (~tasks[t].conn /\ tasks'[t].conn) =>
                    /\ tasks[t].pc \in {"update_running", "query",
                                        "update_completed", "except"}
                    /\ tasks'[t].queries = tasks[t].queries
            /\ tasks[t].conn =>
                    /\ ~tasks'[t].conn
                    /\ ExecutesOneStatement(t)
            /\ (tasks'[t].queries # tasks[t].queries
                \/ \E i \in DOMAIN tasks[t].updates :
                        tasks'[t].updates[i].sent # tasks[t].updates[i].sent) =>
                    tasks[t].conn]_vars

\* a task has ended after a statement raised on each of two connections,
\* and holds none
C21_Witness ==
    \E t \in TaskIds :
        /\ tasks[t].pc = "crashed"
        /\ tasks[t].raised = "update_running_execute"
        /\ Len(tasks[t].updates) = 2
        /\ ~tasks[t].conn
        /\ loop = 0

\* the row of a job that only the updates of one task have reached: the
\* row as created, or the values of the last update that reached the
\* warehouse
Recorded(task) ==
    LET sent == {i \in DOMAIN task.updates : task.updates[i].sent}
    IN  IF sent = {} THEN NewRow
        ELSE LET u == task.updates[CHOOSE i \in sent : \A k \in sent : k <= i]
             IN  [status |-> u.status, output_location |-> u.output_location,
                  error_message |-> u.error_message,
                  execution_time_seconds |-> u.execution_time]

\* C22: jobs with different ids do not touch each other: every update a
\* task issues names its own job id, every object it writes has its own
\* job id in the key and no other task's key, and the row of each job is
\* what the updates of its own task alone have made it, as if the job had
\* run alone; the row of a job without a task is as it was created.
C22_JobsAreIndependent ==
    /\ \A t \in TaskIds :
            /\ \A i \in DOMAIN tasks[t].updates :
                    tasks[t].updates[i].job_id = tasks[t].job_id
            /\ jobs[tasks[t].job_id] = Recorded(tasks[t])
    /\ \A j \in JobIds :
            (\A t \in TaskIds : tasks[t].job_id # j) => jobs[j] = NewRow
    /\ \A i \in DOMAIN puts :
            /\ puts[i].Key[4] = tasks[puts[i].task].job_id
            /\ \A k \in DOMAIN puts :
                    puts[k].Key = puts[i].Key => puts[k].task = puts[i].task

\* two jobs with different ids were accepted before either was processed;
\* one has ended COMPLETED with its object stored, the other FAILED
C22_Witness ==
    \E t, u \in TaskIds :
        /\ tasks[t].job_id # tasks[u].job_id
        /\ tasks[t].pc = "done" /\ tasks[u].pc = "done"
        /\ jobs[tasks[t].job_id].status = "COMPLETED"
        /\ jobs[tasks[u].job_id].status = "FAILED"
        /\ PutsOf(t) # {} /\ PutsOf(u) = {}

\* a job whose job_type is not a report tag and whose input data names no
\* report_type
NoTag(task) ==
    /\ "report_type" \notin DOMAIN task.input_data
    /\ \A key \in GeneratorKeys : ~SameTag(task.job_type, key)

\* the message recorded for an unsupported report type
UnsupportedMessage(tag) ==
    <<"Job processing failed: ", "Unsupported report type: ">> \o tag

\* C23 as stated: a job whose job_type is not a report tag and whose input
\* data names no report_type always ends FAILED with the unsupported-type
\* message, without a report query or an upload.
C23_UntaggedJobEndsFailed ==
    \A t \in TaskIds :
        (NoTag(tasks[t]) /\ Ended(tasks[t])) =>
            /\ jobs[tasks[t].job_id].status = "FAILED"
            /\ jobs[tasks[t].job_id].error_message = UnsupportedMessage(tasks[t].job_type)
            /\ tasks[t].queries = 0
            /\ PutsOf(t) = {}

\* C23 as amended: the report type of a job is input_data['report_type']
\* when that key is present and job_type otherwise; a job whose job_type is
\* not a report tag and whose input data names no report_type never has a
\* report query executed, an upload attempted or a COMPLETED update issued;
\* once its RUNNING update has returned, its task fails at the dispatch and
\* the FAILED update it issues carries the unsupported-type message with
\* the job_type; and when its task ends normally, a FAILED update has
\* reached the warehouse.
C23_ReportTypeDefaultsToJobType ==
    \A t \in TaskIds :
        LET task == tasks[t]
        IN  /\ task.report_type # <<>> =>
                task.report_type =
                    IF "report_type" \in DOMAIN task.input_data
                    THEN task.input_data["report_type"]
                    ELSE task.job_type
            /\ NoTag(task) =>
                /\ task.queries = 0
                /\ task.uploads = 0
                /\ PutsOf(t) = {}
                /\ IssuedWith(task, "COMPLETED") = {}
                /\ task.generator = None
                /\ task.report_type # <<>> =>
                    /\ task.report_type = task.job_type
                    /\ task.raised = "generate"
                    /\ \A i \in IssuedWith(task, "FAILED") :
                            task.updates[i].error_message =
                                UnsupportedMessage(task.job_type)
                /\ task.pc = "done" => SentWith(task, "FAILED") # {}

\* a job of type REPORT without a report_type has ended, and its row is
\* FAILED with the unsupported-type message
C23_Witness ==
    \E t \in TaskIds :
        /\ NoTag(tasks[t])
        /\ tasks[t].pc = "done"
        /\ tasks[t].report_type = REPORT
        /\ jobs[tasks[t].job_id].status = "FAILED"
        /\ jobs[tasks[t].job_id].error_message = UnsupportedMessage(REPORT)

====
